---- MODULE Spec2Model ----
(***************************************************************************)
(* Model of the BackcountrySaftey scraper: the scrape session              *)
(* (UtahScraper.get_data), link discovery, the report normalizer and the   *)
(* SnowPilot secondary-source client.                                      *)
(*                                                                         *)
(* Conventions.  A Python str is a sequence of tokens; a token is either a *)
(* single character or a word that the code never looks inside.  None is   *)
(* the empty set and a value v that is present is the singleton {v}.  A    *)
(* call that can raise returns Ok(v) or Raise(type, arg).                  *)
(***************************************************************************)
EXTENDS Integers, Sequences, FiniteSets, TLC

VARIABLES pc, table_links, idx, results, raised, requests, web_access,
          exit_code, calls, main_page, url, snow1, snow2, out,
          aspect_degrees, http_log, db, reports, inserted

vars == <<pc, table_links, idx, results, raised, requests, web_access,
          exit_code, calls, main_page, url, snow1, snow2, out,
          aspect_degrees, http_log, db, reports, inserted>>

----------------------------------------------------------------------------
(* Optional values and call outcomes *)

None == {}

Some(v) == {v}

Get(o) == CHOOSE v \in o : TRUE

Ok(v) == [ok |-> TRUE, val |-> v]

Raise(type, arg) == [ok |-> FALSE, exc |-> [type |-> type, arg |-> arg]]

NoExc == [type |-> "none", arg |-> <<>>]

----------------------------------------------------------------------------
(* Python string primitives over token sequences *)

Digits == {"0", "1", "2", "3", "4", "5", "6", "7", "8", "9"}

UpperCase == <<"A", "B", "C", "D", "E", "F", "G", "H", "I", "J", "K", "L", "M",
               "N", "O", "P", "Q", "R", "S", "T", "U", "V", "W", "X", "Y", "Z">>

LowerCase == <<"a", "b", "c", "d", "e", "f", "g", "h", "i", "j", "k", "l", "m",
               "n", "o", "p", "q", "r", "s", "t", "u", "v", "w", "x", "y", "z">>

LowerChar(c) ==
    IF \E k \in 1..26 : UpperCase[k] = c
    THEN LowerCase[CHOOSE k \in 1..26 : UpperCase[k] = c]
    ELSE c

Lower(s) == [k \in 1..Len(s) |-> LowerChar(s[k])]

Contains(s, sub) ==
    \E k \in 0..(Len(s) - Len(sub)) : SubSeq(s, k + 1, k + Len(sub)) = sub

RECURSIVE Split(_, _)
Split(s, sep) ==
    IF \A k \in 1..Len(s) : s[k] # sep
    THEN <<s>>
    ELSE LET k == CHOOSE j \in 1..Len(s) :
                      s[j] = sep /\ \A m \in 1..(j - 1) : s[m] # sep
         IN  <<SubSeq(s, 1, k - 1)>> \o Split(SubSeq(s, k + 1, Len(s)), sep)

RECURSIVE Strip(_)
Strip(s) ==
    IF s = <<>> THEN s
    ELSE IF Head(s) = " " THEN Strip(Tail(s))
    ELSE IF s[Len(s)] = " " THEN Strip(SubSeq(s, 1, Len(s) - 1))
    ELSE s

Last(s) == s[Len(s)]

IsNumericChar(c) == c \in Digits \cup {"."}

RECURSIVE FindAllNumeric(_)
FindAllNumeric(s) ==
    IF s = <<>> THEN <<>>
    ELSE IF ~IsNumericChar(Head(s)) THEN FindAllNumeric(Tail(s))
    ELSE LET n == CHOOSE j \in 1..Len(s) :
                      /\ \A m \in 1..j : IsNumericChar(s[m])
                      /\ (j = Len(s) \/ ~IsNumericChar(s[j + 1]))
         IN  <<SubSeq(s, 1, n)>> \o FindAllNumeric(SubSeq(s, n + 1, Len(s)))

RECURSIVE Join(_)
Join(parts) == IF parts = <<>> THEN <<>> ELSE Head(parts) \o Join(Tail(parts))

Truthy(o) == o # None /\ o # Some(<<>>)

PyOr(a, b) == IF Truthy(a) THEN a ELSE b

----------------------------------------------------------------------------
(* Numbers: a float is the exact fraction num/den with den a power of ten. *)

DigitSeq == <<"0", "1", "2", "3", "4", "5", "6", "7", "8", "9">>

DigitVal(c) == (CHOOSE k \in 1..10 : DigitSeq[k] = c) - 1

RECURSIVE IntVal(_)
IntVal(ds) ==
    IF ds = <<>> THEN 0 ELSE 10 * IntVal(SubSeq(ds, 1, Len(ds) - 1)) + DigitVal(Last(ds))

RECURSIVE Pow10(_)
Pow10(n) == IF n = 0 THEN 1 ELSE 10 * Pow10(n - 1)

IsDigit(c) == c \in Digits

(* float(s) for s made of digits, dots and minus signs: None is ValueError *)
Float(s) ==
    LET neg  == s # <<>> /\ Head(s) = "-"
        body == IF neg THEN Tail(s) ELSE s
        dots == {k \in 1..Len(body) : body[k] = "."}
        digs == SelectSeq(body, IsDigit)
        frac == IF dots = {} THEN 0 ELSE Len(body) - (CHOOSE k \in dots : TRUE)
    IN  IF /\ Cardinality(dots) <= 1
           /\ digs # <<>>
           /\ \A k \in 1..Len(body) : IsNumericChar(body[k])
        THEN Some([num |-> (IF neg THEN -1 ELSE 1) * IntVal(digs), den |-> Pow10(frac)])
        ELSE None

(* round(num/den) as Python rounds: to nearest, ties to the even integer *)
Round(num, den) ==
    LET q == num \div den
        r == num % den
    IN  IF 2 * r < den THEN q
        ELSE IF 2 * r > den THEN q + 1
        ELSE IF q % 2 = 0 THEN q ELSE q + 1

----------------------------------------------------------------------------
(* SnowPilotClient (src/scrapers/snowpilot.py).  A "snow" value is what the *)
(* network answers for one client: html is None when the page request       *)
(* raises, else the anchors of the page; xml is the answer to the XML       *)
(* download.                                                                *)

directions == <<"N", "NE", "E", "SE", "S", "SW", "W", "NW">>

XML_WORD == <<"x", "m", "l">>

_load_xml(snow) ==
    IF snow.html = None THEN None
    ELSE LET anchors == Get(snow.html)
             hits == {k \in 1..Len(anchors) :
                         /\ anchors[k].href # None
                         /\ Contains(Lower(anchors[k].text), XML_WORD)}
         IN  IF hits = {} THEN None
             ELSE IF snow.xml.kind # "document" THEN None
             ELSE Some(snow.xml.root)

(* variant: a page without an XML link gives a client with an empty profile *)
SnowPilotClient_not_available(u, snow) ==
    LET root == _load_xml(snow)
    IN  IF root # None THEN Ok([url |-> u, _root |-> Get(root)])
        ELSE IF snow.html # None /\ snow.xml.kind = "not_requested"
        THEN Ok([url |-> u,
                 _root |-> [attrib |-> [aspect |-> None, incline |-> None,
                                        lat |-> None, longitude |-> None],
                            location |-> None, other_children |-> FALSE]])
        ELSE Raise("SnowPilotError", u)

SnowPilotClient(u, snow) ==
    LET root == _load_xml(snow)
    IN  IF root = None THEN Raise("SnowPilotError", u)
        ELSE Ok([url |-> u, _root |-> Get(root)])

(* bool(Element): an element without child elements is falsy *)
ElementTruthy(root) == root.location # None \/ root.other_children

_degrees_to_compass(degrees) ==
    IF degrees = None THEN None
    ELSE LET f == Float(Join(FindAllNumeric(Get(degrees))))
         IN  IF f = None THEN None
             ELSE Some(<<directions[(Round(Get(f).num, 45 * Get(f).den) % 8) + 1]>>)

snowpilot_aspect(client) ==
    _degrees_to_compass(IF ElementTruthy(client._root)
                        THEN client._root.attrib.aspect ELSE None)

snowpilot_slope_angle(client) ==
    IF ElementTruthy(client._root) THEN client._root.attrib.incline ELSE None

snowpilot_elevation(client) ==
    IF client._root.location # None THEN Get(client._root.location).elv ELSE None

snowpilot_latitude(client) ==
    IF ElementTruthy(client._root) THEN client._root.attrib.lat ELSE None

snowpilot_longitude(client) ==
    IF ElementTruthy(client._root) THEN client._root.attrib.longitude ELSE None

----------------------------------------------------------------------------
(* The parsed report page (web_access).  script is None when the page has   *)
(* no "window.Backdrop" script tag, else the POINT literal the regular      *)
(* expression finds in it (None when it finds none).  fields maps a label   *)
(* text to NoLabel or to Field(v), v being the stripped text of the div     *)
(* that follows the label (None when no div follows).                       *)

NoLabel == [label |-> FALSE, value |-> None]

Field(v) == [label |-> TRUE, value |-> v]

get_field_value(page, label_text) ==
    LET f == page.fields[label_text]
    IN  IF ~f.label THEN None ELSE f.value

lookup ==
    ("Logan" :> 1) @@ ("Ogden" :> 2) @@ ("Uintas" :> 3) @@ ("Salt Lake" :> 4) @@
    ("Provo" :> 5) @@ ("Skyline" :> 6) @@ ("Moab" :> 7) @@ ("Abajos" :> 8) @@
    ("Southwest" :> 9)

(* lookup.get(name) for a name given as a token sequence *)
lookup_get(name) ==
    IF Len(name) = 1 /\ name[1] \in DOMAIN lookup THEN Some(lookup[name[1]]) ELSE None

(* The result is <<longitude, latitude>>; the except clause of lines        *)
(* 133-135 turns every exception of the client into two absent values.      *)
get_lat_lon(page, snow) ==
    IF page.script = None
    THEN Raise("AttributeError", <<"string">>)
    ELSE LET match == Get(page.script).wkt
         IN  IF match # None
             THEN LET lon == Float(Get(match)[1])
                      lat == Float(Get(match)[2])
                  IN  IF lon = None THEN Raise("ValueError", Get(match)[1])
                      ELSE IF lat = None THEN Raise("ValueError", Get(match)[2])
                      ELSE Ok(<<lon, lat>>)
             ELSE LET snowpilot_table == get_field_value(page, "Snow Pilot URL")
                  IN  IF snowpilot_table = None THEN Ok(<<None, None>>)
                      ELSE LET snowpilot == SnowPilotClient(Get(snowpilot_table), snow)
                           IN  IF ~snowpilot.ok THEN Ok(<<None, None>>)
                               ELSE Ok(<<snowpilot_longitude(snowpilot.val),
                                         snowpilot_latitude(snowpilot.val)>>)

(* the separator glyph of the Region value (U+00BB), as one token *)
REGION_SEP == "&raquo;"

(* variant: the sub-region is the second segment of the Region value *)
get_region_two_levels(page) ==
    LET region == get_field_value(page, "Region")
    IN  IF region = None THEN Raise("AttributeError", <<"split">>)
        ELSE LET raw   == Split(Get(region), REGION_SEP)
                 parts == [k \in 1..Len(raw) |-> Strip(raw[k])]
             IN  Ok(<<parts[1], IF Len(parts) >= 2 THEN parts[2] ELSE parts[1]>>)

get_region(page) ==
    LET region == get_field_value(page, "Region")
    IN  IF region = None THEN Raise("AttributeError", <<"split">>)
        ELSE LET raw   == Split(Get(region), REGION_SEP)
                 parts == [k \in 1..Len(raw) |-> Strip(raw[k])]
             IN  Ok(<<parts[1], Last(parts)>>)

UNKNOWN == <<"u", "n", "k", "n", "o", "w", "n">>

(* lines 172-177: the page slope angle after normalisation *)
page_slope_angle(page) ==
    LET v == get_field_value(page, "Slope Angle")
    IN  IF v = None THEN None
        ELSE IF Lower(Get(v)) = UNKNOWN THEN None
        ELSE Some(Join(FindAllNumeric(Get(v))))

(* variant: when the client cannot be built the page values are kept *)
get_snow_profile_keep_page_values(page, snow) ==
    LET asp == get_field_value(page, "Aspect")
        elv == get_field_value(page, "Elevation")
        slp == page_slope_angle(page)
    IN  IF asp # None /\ elv # None /\ slp # None THEN Ok(<<asp, elv, slp>>)
        ELSE LET snowpilot_table == get_field_value(page, "Snow Pilot URL")
             IN  IF snowpilot_table = None THEN Ok(<<asp, elv, slp>>)
                 ELSE LET snowpilot == SnowPilotClient(Get(snowpilot_table), snow)
                      IN  IF ~snowpilot.ok THEN Ok(<<asp, elv, slp>>)
                          ELSE Ok(<<PyOr(asp, snowpilot_aspect(snowpilot.val)),
                                    PyOr(elv, snowpilot_elevation(snowpilot.val)),
                                    PyOr(slp, snowpilot_slope_angle(snowpilot.val))>>)

(* result is <<aspect, elevation, slope_angle>>; the except clause of lines *)
(* 200-202 turns every exception of the client into three absent values     *)
get_snow_profile(page, snow) ==
    LET asp == get_field_value(page, "Aspect")
        elv == get_field_value(page, "Elevation")
        slp == page_slope_angle(page)
    IN  IF asp # None /\ elv # None /\ slp # None THEN Ok(<<asp, elv, slp>>)
        ELSE LET snowpilot_table == get_field_value(page, "Snow Pilot URL")
             IN  IF snowpilot_table = None THEN Ok(<<asp, elv, slp>>)
                 ELSE LET snowpilot == SnowPilotClient(Get(snowpilot_table), snow)
                      IN  IF ~snowpilot.ok THEN Ok(<<None, None, None>>)
                          ELSE Ok(<<PyOr(asp, snowpilot_aspect(snowpilot.val)),
                                    PyOr(elv, snowpilot_elevation(snowpilot.val)),
                                    PyOr(slp, snowpilot_slope_angle(snowpilot.val))>>)

(* fieldsets[index] is None when the page has no fieldset of that problem,  *)
(* else its labels in document order, each with the text of its value div   *)
get_avalanche_problem(index, page) ==
    LET fieldset == page.fieldsets[index]
    IN  IF fieldset = None THEN <<None, None>>
        ELSE LET labels == Get(fieldset)
                 data_get(key) ==
                     LET ks == {k \in 1..Len(labels) : labels[k].key = key}
                     IN  IF ks = {} THEN None
                         ELSE labels[CHOOSE k \in ks : \A m \in ks : m <= k].value
             IN  <<data_get(<<"Problem">>), data_get(<<"Trend">>)>>

(* red_flags is None when the page has no "Red Flags" div, else the         *)
(* siblings that follow it, each with its class list and its text           *)
(* variant: a following label is passed over and the collection goes on *)
RECURSIVE red_flag_values_no_stop(_)
red_flag_values_no_stop(sibs) ==
    IF sibs = <<>> THEN <<>>
    ELSE IF "field-label" \in Head(sibs).class THEN red_flag_values_no_stop(Tail(sibs))
    ELSE IF "text_02" \in Head(sibs).class
         THEN <<Head(sibs).text>> \o red_flag_values_no_stop(Tail(sibs))
    ELSE red_flag_values_no_stop(Tail(sibs))

RECURSIVE red_flag_values(_)
red_flag_values(sibs) ==
    IF sibs = <<>> THEN <<>>
    ELSE IF "field-label" \in Head(sibs).class THEN <<>>
    ELSE IF "text_02" \in Head(sibs).class
         THEN <<Head(sibs).text>> \o red_flag_values(Tail(sibs))
    ELSE red_flag_values(Tail(sibs))

get_red_flags(page) ==
    IF page.red_flags = None THEN None
    ELSE Some(red_flag_values(Get(page.red_flags)))

----------------------------------------------------------------------------
(* datetime.strptime(s, "%A, %B %d, %Y").strftime("%Y-%m-%d") *)

Weekdays == {"Monday", "Tuesday", "Wednesday", "Thursday", "Friday", "Saturday", "Sunday"}

MonthNames == <<"January", "February", "March", "April", "May", "June", "July",
                "August", "September", "October", "November", "December">>

MonthDays == <<31, 28, 31, 30, 31, 30, 31, 31, 30, 31, 30, 31>>

IsLeap(y) == (y % 4 = 0 /\ y % 100 # 0) \/ y % 400 = 0

TwoDigits(n) == <<DigitSeq[(n \div 10) + 1], DigitSeq[(n % 10) + 1]>>

(* the date text is <<weekday, ",", " ", month, " ", d.., ",", " ", y, y, y, y>> *)
strptime_strftime(s) ==
    LET nd == IF Len(s) >= 7 /\ IsDigit(s[6]) /\ IsDigit(s[7]) THEN 2 ELSE 1
        wellformed ==
            /\ Len(s) = 11 + nd
            /\ s[1] \in Weekdays
            /\ s[2] = "," /\ s[3] = " "
            /\ \E m \in 1..12 : MonthNames[m] = s[4]
            /\ s[5] = " "
            /\ \A k \in 6..(5 + nd) : IsDigit(s[k])
            /\ s[6 + nd] = "," /\ s[7 + nd] = " "
            /\ \A k \in (8 + nd)..(11 + nd) : IsDigit(s[k])
        m == CHOOSE k \in 1..12 : MonthNames[k] = s[4]
        d == IntVal(SubSeq(s, 6, 5 + nd))
        y == IntVal(SubSeq(s, 8 + nd, 11 + nd))
    IN  IF ~wellformed THEN Raise("ValueError", s)
        ELSE IF y < 1 \/ d < 1 \/ d > MonthDays[m] + (IF m = 2 /\ IsLeap(y) THEN 1 ELSE 0)
        THEN Raise("ValueError", s)
        ELSE Ok(SubSeq(s, 8 + nd, 11 + nd) \o <<"-">> \o TwoDigits(m) \o <<"-">> \o TwoDigits(d))

----------------------------------------------------------------------------
(* UtahScraper: the date of the session and the normalizer *)

self_day == <<"1", "5">>

self_month == <<"1", "2">>

self_year == <<"2", "0", "2", "4">>

report_id_of(web_url) == Last(Split(web_url, "/"))

(* snowA answers the client of get_lat_lon, snowB that of get_snow_profile *)
_get_base_info(web_url, page, snowA, snowB) ==
    LET ll == get_lat_lon(page, snowA)
        rg == get_region(page)
        sp == get_snow_profile(page, snowB)
        loc == page.fields["Location Name or Route"]
    IN  IF ~ll.ok THEN ll
        ELSE IF ~rg.ok THEN rg
        ELSE IF ~sp.ok THEN sp
        ELSE IF ~loc.label THEN Raise("AttributeError", <<"find_next_sibling">>)
        ELSE IF loc.value = None THEN Raise("AttributeError", <<"get_text">>)
        ELSE Ok([report_id |-> report_id_of(web_url),
                 state_id |-> 45,
                 state_name |-> <<"Utah">>,
                 report_url |-> web_url,
                 observation_date |-> self_year \o <<"-">> \o self_month \o <<"-">> \o self_day,
                 location_name |-> loc.value,
                 region_id |-> lookup_get(rg.val[1]),
                 region_name |-> rg.val[1],
                 latitude |-> ll.val[2],
                 longitude |-> ll.val[1],
                 elevation_ft |-> sp.val[2],
                 aspect |-> sp.val[1],
                 slope_angle |-> sp.val[3]]
                @@ ("sub-region_name" :> rg.val[2]))

_normalize_avalanche(web_url, page, snowA, snowB) ==
    LET base_info == _get_base_info(web_url, page, snowA, snowB)
        date_text == get_field_value(page, "Avalanche Date")
        parsed    == strptime_strftime(Get(date_text))
    IN  IF ~base_info.ok THEN base_info
        ELSE IF date_text = None THEN Raise("TypeError", <<"strptime">>)
        ELSE IF ~parsed.ok THEN parsed
        ELSE Ok(<<base_info.val,
                  [report_id |-> report_id_of(web_url),
                   avalanche_date |-> parsed.val,
                   trigger |-> get_field_value(page, "Trigger"),
                   trigger_additional |-> get_field_value(page, "Trigger: additional info"),
                   avalanche_type |-> get_field_value(page, "Avalanche Type"),
                   problem |-> get_field_value(page, "Avalanche Problem"),
                   weak_layer |-> get_field_value(page, "Weak Layer"),
                   depth |-> get_field_value(page, "Depth"),
                   width_feet |-> get_field_value(page, "Width"),
                   vertical_feet |-> get_field_value(page, "Vertical"),
                   Caught |-> get_field_value(page, "Caught"),
                   Carried |-> get_field_value(page, "Carried")]>>)

_normalize_observation(web_url, page, snowA, snowB) ==
    LET base_info == _get_base_info(web_url, page, snowA, snowB)
        p1 == get_avalanche_problem(1, page)
        p2 == get_avalanche_problem(2, page)
    IN  IF ~base_info.ok THEN base_info
        ELSE Ok(<<base_info.val,
                  [red_flags |-> get_red_flags(page),
                   new_snow_depth |-> get_field_value(page, "New Snow Depth"),
                   new_snow_density |-> get_field_value(page, "New Snow Density"),
                   snow_surface_conditions |-> get_field_value(page, "Snow Surface Conditions"),
                   avy_problem_1 |-> p1[1],
                   avy_problem_1_trend |-> p1[2],
                   avy_problem_2 |-> p2[1],
                   avy_problem_2_trend |-> p2[2],
                   today_rating |-> get_field_value(page, "Today's Observed Danger Rating"),
                   tomorrow_rating |-> get_field_value(page, "Tomorrows Estimated Danger Rating"),
                   report_id |-> report_id_of(web_url)]>>)

----------------------------------------------------------------------------
(* Input sets: pages, secondary-source answers, discovered links *)

MaxLinks == 2

MaxAnchors == 2

LON_TEXT == <<"-", "1", "1", "1", ".", "6">>

LAT_TEXT == <<"4", "0", ".", "5">>

Scripts == {None, Some([wkt |-> None]), Some([wkt |-> Some(<<LON_TEXT, LAT_TEXT>>)])}

LocationFields == {NoLabel, Field(None), Field(Some(<<"Days Fork">>))}

RegionFields ==
    {NoLabel, Field(Some(<<"Salt Lake", " ", REGION_SEP, " ", "Days Fork">>)),
     Field(Some(<<"Uintas">>)), Field(Some(<<"Narnia">>))}

AspectFields == {NoLabel, Field(Some(<<>>)), Field(Some(<<"1", "3", "5">>))}

ElevationFields == {NoLabel, Field(Some(<<>>)), Field(Some(<<"9", "5", "0", "0">>))}

SlopeFields ==
    {NoLabel, Field(Some(<<"U", "n", "k", "n", "o", "w", "n">>)),
     Field(Some(<<"3", "8", "deg">>)), Field(Some(<<"N", "/", "A">>))}

SNOW_URL == <<"https:", "/", "/", "snowpilot.org", "/", "node", "/", "7">>

UrlFields == {NoLabel, Field(Some(SNOW_URL))}

GOOD_DATE == <<"Wednesday", ",", " ", "January", " ", "1", "5", ",", " ", "2", "0", "2", "5">>

DateFields ==
    {NoLabel, Field(Some(GOOD_DATE)),
     Field(Some(<<"1", "/", "1", "5", "/", "2", "0", "2", "5">>)),
     Field(Some(<<"Friday", ",", " ", "February", " ", "3", "0", ",", " ", "2", "0", "2", "5">>))}

MandatoryLabels == {"Location Name or Route", "Avalanche Date"}

ProfileLabels == {"Aspect", "Elevation", "Slope Angle"}

DetailLabels ==
    {"Trigger", "Trigger: additional info", "Avalanche Type", "Avalanche Problem",
     "Weak Layer", "Depth", "Width", "Vertical", "Caught", "Carried",
     "New Snow Depth", "New Snow Density", "Snow Surface Conditions",
     "Today's Observed Danger Rating", "Tomorrows Estimated Danger Rating"}

Labels ==
    MandatoryLabels \cup ProfileLabels \cup DetailLabels \cup {"Region", "Snow Pilot URL"}

MkPage(sc, loc, rg, asp, elv, slp, u, ad, det, rf, fs) ==
    [script |-> sc,
     fields |-> [l \in Labels |->
                    CASE l = "Location Name or Route" -> loc
                      [] l = "Region" -> rg
                      [] l = "Aspect" -> asp
                      [] l = "Elevation" -> elv
                      [] l = "Slope Angle" -> slp
                      [] l = "Snow Pilot URL" -> u
                      [] l = "Avalanche Date" -> ad
                      [] OTHER -> det],
     red_flags |-> rf,
     fieldsets |-> <<fs, None>>]

EmptyPage ==
    MkPage(None, NoLabel, NoLabel, NoLabel, NoLabel, NoLabel, NoLabel, NoLabel,
           NoLabel, None, None)

(* XML roots: the attributes of the root element and its Location child *)
Attribs ==
    [aspect : {None, Some(<<"1", "3", "5">>), Some(<<"N", "E">>)},
     incline : {None, Some(<<"3", "8">>)},
     lat : {None, Some(LAT_TEXT)},
     longitude : {None, Some(LON_TEXT)}]

Roots ==
    [attrib : Attribs,
     location : {None, Some([elv |-> None]), Some([elv |-> Some(<<"9", "0", "0", "0">>)])},
     other_children : BOOLEAN]

EmptyRoot ==
    [attrib |-> [aspect |-> None, incline |-> None, lat |-> None, longitude |-> None],
     location |-> None, other_children |-> FALSE]

XmlAnswers ==
    {[kind |-> "request_error", root |-> EmptyRoot], [kind |-> "malformed", root |-> EmptyRoot]}
    \cup [kind : {"document"}, root : Roots]

Anchors ==
    {[text |-> <<"P", "D", "F">>, href |-> Some(<<"profile.pdf">>)],
     [text |-> <<"X", "M", "L">>, href |-> Some(<<"profile.xml">>)],
     [text |-> <<"x", "m", "l">>, href |-> None]}

AnchorLists == UNION {[1..n -> Anchors] : n \in 0..MaxAnchors}

NoXml == [kind |-> "not_requested", root |-> EmptyRoot]

HasXmlLink(a) == _load_xml([html |-> Some(a), xml |-> [kind |-> "document", root |-> EmptyRoot]]) # None

(* the XML download has an answer only in the worlds where it is requested *)
SnowWorlds ==
    {[html |-> None, xml |-> NoXml]}
    \cup {[html |-> Some(a), xml |-> NoXml] : a \in {b \in AnchorLists : ~HasXmlLink(b)}}
    \cup [html : {Some(a) : a \in {b \in AnchorLists : HasXmlLink(b)}}, xml : XmlAnswers]

GoodScript == Some([wkt |-> Some(<<LON_TEXT, LAT_TEXT>>)])

GoodLocation == Field(Some(<<"Days Fork">>))

GoodRegion == Field(Some(<<"Salt Lake", " ", REGION_SEP, " ", "Days Fork">>))

GoodPage ==
    MkPage(GoodScript, GoodLocation, GoodRegion, Field(Some(<<"1", "3", "5">>)),
           Field(Some(<<"9", "5", "0", "0">>)), Field(Some(<<"3", "8", "deg">>)), NoLabel,
           Field(Some(GOOD_DATE)), Field(Some(<<"Skier">>)), Some(<<>>), None)

(* the pages a session is served: a complete one, one per missing element,  *)
(* and one that sends both resolvers to the secondary source                *)
SessionPages ==
    {GoodPage,
     [GoodPage EXCEPT !.fields["Location Name or Route"] = NoLabel],
     [GoodPage EXCEPT !.fields["Avalanche Date"] = NoLabel],
     [GoodPage EXCEPT !.fields["Region"] = NoLabel],
     [GoodPage EXCEPT !.script = None],
     [GoodPage EXCEPT !.script = Some([wkt |-> None]),
                      !.fields["Elevation"] = NoLabel,
                      !.fields["Snow Pilot URL"] = Field(Some(SNOW_URL))]}

(* the secondary source of a session: unreachable, or one full document *)
SessionSnow ==
    {w \in SnowWorlds :
        \/ w.html = None
        \/ /\ Len(Get(w.html)) = 1
           /\ w.xml.kind = "document"
           /\ w.xml.root.other_children
           /\ w.xml.root.location = Some([elv |-> Some(<<"9", "0", "0", "0">>)])
           /\ w.xml.root.attrib.aspect = Some(<<"1", "3", "5">>)
           /\ w.xml.root.attrib.incline # None
           /\ w.xml.root.attrib.lat # None
           /\ w.xml.root.attrib.longitude # None}

SessionLinks ==
    {<<"/", "avalanche", "/", "12345">>, <<"/", "observation", "/", "67890">>,
     <<"/", "blog", "/", "xyz">>, <<"#top">>}

LinkLists == UNION {[1..n -> SessionLinks] : n \in 0..MaxLinks}

(* what the search request returns: None when the request raises, else the  *)
(* parsed page: its view-content div (or None), in it the table (or None),  *)
(* in it the hrefs of the anchors                                           *)
SearchWorlds ==
    {None, Some([view_content |-> None]), Some([view_content |-> Some([table |-> None])])}
    \cup {Some([view_content |-> Some([table |-> Some(l)])]) : l \in LinkLists}

----------------------------------------------------------------------------
(* The HTTP traffic of a session, in the order the code issues it: a        *)
(* request is a blocking call of get(), a sleep is the call time.sleep(1)   *)

Request(u) == [kind |-> "request", url |-> u]

Sleep == [kind |-> "sleep", url |-> <<>>]

(* urljoin(base, href) for a relative href: the last segment is replaced *)
urljoin(base, href) == SubSeq(base, 1, Len(base) - 1) \o href

(* snowpilot.py lines 42-58: the page is requested, and the XML document    *)
(* when the page was received and has a link to it                          *)
load_xml_requests(u, snow) ==
    IF snow.html = None THEN <<Request(u)>>
    ELSE LET anchors == Get(snow.html)
             hits == {k \in 1..Len(anchors) :
                         /\ anchors[k].href # None
                         /\ Contains(Lower(anchors[k].text), XML_WORD)}
         IN  IF hits = {} THEN <<Request(u)>>
             ELSE LET first == CHOOSE k \in hits : \A m \in hits : k <= m
                  IN  <<Request(u), Request(urljoin(u, Get(anchors[first].href)))>>

(* utah_scraper.py lines 106-127: get_lat_lon builds a client only without  *)
(* a POINT literal and with a Snow Pilot URL                                *)
get_lat_lon_requests(page, snow) ==
    IF page.script = None \/ Get(page.script).wkt # None THEN <<>>
    ELSE IF get_field_value(page, "Snow Pilot URL") = None THEN <<>>
    ELSE load_xml_requests(Get(get_field_value(page, "Snow Pilot URL")), snow)

(* utah_scraper.py lines 180-193 *)
get_snow_profile_requests(page, snow) ==
    IF /\ get_field_value(page, "Aspect") # None
       /\ get_field_value(page, "Elevation") # None
       /\ page_slope_angle(page) # None
    THEN <<>>
    ELSE IF get_field_value(page, "Snow Pilot URL") = None THEN <<>>
    ELSE load_xml_requests(Get(get_field_value(page, "Snow Pilot URL")), snow)

(* utah_scraper.py lines 271-273: get_snow_profile is reached only when     *)
(* get_lat_lon and get_region have returned                                 *)
_get_base_info_requests(page, snowA, snowB) ==
    get_lat_lon_requests(page, snowA)
    \o (IF get_lat_lon(page, snowA).ok /\ get_region(page).ok
        THEN get_snow_profile_requests(page, snowB) ELSE <<>>)

----------------------------------------------------------------------------
(* The scrape session (UtahScraper.get_data) and the entry point *)

SITE == <<"https:", "/", "/", "utahavalanchecenter.org">>

self_url == SITE \o <<"/", "observations?term=All">>

(* variant: a page without the results table counts as a day without reports *)
extract_report_links_lenient(search) ==
    IF search = None THEN Raise("NetworkError", self_url)
    ELSE IF Get(search).view_content = None THEN Ok(<<>>)
    ELSE IF Get(Get(search).view_content).table = None THEN Ok(<<>>)
    ELSE Ok(Get(Get(Get(search).view_content).table))

extract_report_links(search) ==
    IF search = None THEN Raise("NetworkError", self_url)
    ELSE IF Get(search).view_content = None THEN Raise("NetworkError", self_url)
    ELSE IF Get(Get(search).view_content).table = None THEN Raise("NetworkError", self_url)
    ELSE Ok(Get(Get(Get(search).view_content).table))

page_url_of(link) == SITE \o link

(* lines 383-386: discovery, then the loop starts at the first link *)
Discover ==
    /\ pc = "idle"
    /\ \E search \in SearchWorlds :
          LET r == extract_report_links(search)
          IN  /\ requests' = Append(requests, [url |-> self_url, ok |-> search # None])
              /\ main_page' = search
              /\ IF r.ok
                 THEN /\ table_links' = r.val
                      /\ idx' = 1
                      /\ pc' = "loop"
                      /\ raised' = raised
                 ELSE /\ raised' = r.exc
                      /\ pc' = "raised"
                      /\ UNCHANGED <<table_links, idx>>
    /\ UNCHANGED <<results, web_access, exit_code, calls, url, snow1, snow2, out>>
    /\ http_log' = Append(http_log, Request(self_url))
    /\ UNCHANGED <<aspect_degrees, db, reports, inserted>>

(* variant: a failed fetch is logged and the loop goes on to the next link *)
FetchPage_continue ==
    /\ pc = "loop"
    /\ idx <= Len(table_links)
    /\ \E page \in {None} \cup {Some(p) : p \in SessionPages} :
          /\ requests' = Append(requests, [url |-> page_url_of(table_links[idx]),
                                           ok |-> page # None])
          /\ IF page = None
             THEN /\ idx' = idx + 1
                  /\ pc' = "loop"
                  /\ UNCHANGED <<web_access, raised>>
             ELSE /\ web_access' = Get(page)
                  /\ pc' = "fetched"
                  /\ UNCHANGED <<raised, idx>>
    /\ UNCHANGED <<table_links, results, exit_code, calls, main_page, url,
                   snow1, snow2, out>>
    /\ http_log' = http_log \o <<Sleep, Request(page_url_of(table_links[idx]))>>
    /\ UNCHANGED <<aspect_degrees, db, reports, inserted>>

(* lines 388-395: the delay and the fetch of the next report page; page is  *)
(* None when session.get raises a RequestException                          *)
FetchPage ==
    /\ pc = "loop"
    /\ idx <= Len(table_links)
    /\ \E page \in {None} \cup {Some(p) : p \in SessionPages} :
          /\ requests' = Append(requests, [url |-> page_url_of(table_links[idx]),
                                           ok |-> page # None])
          /\ IF page = None
             THEN /\ raised' = [type |-> "NetworkError", arg |-> page_url_of(table_links[idx])]
                  /\ pc' = "raised"
                  /\ UNCHANGED web_access
             ELSE /\ web_access' = Get(page)
                  /\ pc' = "fetched"
                  /\ UNCHANGED raised
    /\ UNCHANGED <<table_links, idx, results, exit_code, calls, main_page, url,
                   snow1, snow2, out>>
    /\ http_log' = http_log \o <<Sleep, Request(page_url_of(table_links[idx]))>>
    /\ UNCHANGED <<aspect_degrees, db, reports, inserted>>

(* variant: every link that is not an avalanche is taken for an observation *)
classify_default_observation(link, page, snowA, snowB) ==
    LET segs == Split(link, "/")
        page_url == page_url_of(link)
    IN  IF Len(segs) < 2 THEN [fn |-> "none", r |-> Raise("IndexError", link)]
        ELSE IF segs[2] = <<"avalanche">>
        THEN [fn |-> "_normalize_avalanche",
              r |-> _normalize_avalanche(page_url, page, snowA, snowB)]
        ELSE [fn |-> "_normalize_observation",
              r |-> _normalize_observation(page_url, page, snowA, snowB)]

(* lines 396-405: classification and dispatch; an exception that is not a   *)
(* RequestException leaves get_data through the except clause untouched     *)
classify(link, page, snowA, snowB) ==
    LET segs == Split(link, "/")
        page_url == page_url_of(link)
    IN  IF Len(segs) < 2 THEN [fn |-> "none", r |-> Raise("IndexError", link)]
        ELSE IF segs[2] = <<"avalanche">>
        THEN [fn |-> "_normalize_avalanche",
              r |-> _normalize_avalanche(page_url, page, snowA, snowB)]
        ELSE IF segs[2] = <<"observation">>
        THEN [fn |-> "_normalize_observation",
              r |-> _normalize_observation(page_url, page, snowA, snowB)]
        ELSE [fn |-> "none", r |-> Raise("ValueError", segs[2])]

(* variant: the newest pair is put at the front of the result list *)
ClassifyNormalize_prepend ==
    /\ pc = "fetched"
    /\ \E snowA \in SessionSnow, snowB \in SessionSnow :
          LET c == classify(table_links[idx], web_access, snowA, snowB)
          IN  /\ http_log' = IF c.fn = "none" THEN http_log
                             ELSE http_log \o _get_base_info_requests(web_access, snowA, snowB)
              /\ calls' = IF c.fn = "none" THEN calls
                          ELSE Append(calls, [fn |-> c.fn, link |-> idx])
              /\ IF c.r.ok
                 THEN /\ results' = <<c.r.val>> \o results
                      /\ idx' = idx + 1
                      /\ pc' = "loop"
                      /\ UNCHANGED raised
                 ELSE /\ raised' = c.r.exc
                      /\ pc' = "raised"
                      /\ UNCHANGED <<results, idx>>
    /\ UNCHANGED <<table_links, requests, web_access, exit_code, main_page, url,
                   snow1, snow2, out>>
    /\ UNCHANGED <<aspect_degrees, db, reports, inserted>>

ClassifyNormalize ==
    /\ pc = "fetched"
    /\ \E snowA \in SessionSnow, snowB \in SessionSnow :
          LET c == classify(table_links[idx], web_access, snowA, snowB)
          IN  /\ http_log' = IF c.fn = "none" THEN http_log
                             ELSE http_log \o _get_base_info_requests(web_access, snowA, snowB)
              /\ calls' = IF c.fn = "none" THEN calls
                          ELSE Append(calls, [fn |-> c.fn, link |-> idx])
              /\ IF c.r.ok
                 THEN /\ results' = Append(results, c.r.val)
                      /\ idx' = idx + 1
                      /\ pc' = "loop"
                      /\ UNCHANGED raised
                 ELSE /\ raised' = c.r.exc
                      /\ pc' = "raised"
                      /\ UNCHANGED <<results, idx>>
    /\ UNCHANGED <<table_links, requests, web_access, exit_code, main_page, url,
                   snow1, snow2, out>>
    /\ UNCHANGED <<aspect_degrees, db, reports, inserted>>

(* lines 410-411 *)
Return ==
    /\ pc = "loop"
    /\ idx > Len(table_links)
    /\ pc' = "returned"
    /\ UNCHANGED <<table_links, idx, results, raised, requests, web_access,
                   exit_code, calls, main_page, url, snow1, snow2, out>>
    /\ UNCHANGED <<aspect_degrees, http_log, db, reports, inserted>>

(* src/main.py: print the data, or log the exception and exit(1) *)
Main ==
    /\ pc \in {"returned", "raised"}
    /\ exit_code' = IF pc = "returned" THEN 0 ELSE 1
    /\ pc' = IF pc = "returned" THEN "exit_ok" ELSE "exit_error"
    /\ UNCHANGED <<table_links, idx, results, raised, requests, web_access,
                   calls, main_page, url, snow1, snow2, out>>
    /\ UNCHANGED <<aspect_degrees, http_log, db, reports, inserted>>

Init ==
    /\ pc = "idle"
    /\ table_links = <<>>
    /\ idx = 0
    /\ results = <<>>
    /\ raised = NoExc
    /\ requests = <<>>
    /\ web_access = EmptyPage
    /\ exit_code = -1
    /\ calls = <<>>
    /\ main_page = None
    /\ url = <<>>
    /\ snow1 = [html |-> None, xml |-> NoXml]
    /\ snow2 = [html |-> None, xml |-> NoXml]
    /\ out = <<>>
    /\ aspect_degrees = None
    /\ http_log = <<>>
    /\ db = [reports |-> {}, observations |-> {}, avalanches |-> {}]
    /\ reports = <<>>
    /\ inserted = 0

Next == Discover \/ FetchPage \/ ClassifyNormalize \/ Return \/ Main

Spec == Init /\ [][Next]_vars

----------------------------------------------------------------------------
(* Properties of the scrape session *)

Aborted == pc \in {"raised", "exit_error"}

(* the session stopped on an exception raised after the page of link idx    *)
(* had been fetched: in the classification or in the normalizer             *)
AbortedAfterFetch == Aborted /\ Len(requests) >= 2 /\ requests[Len(requests)].ok

HasSegment(link) == Len(Split(link, "/")) >= 2

FirstSegment(link) == Split(link, "/")[2]

ReportSegments == {<<"avalanche">>, <<"observation">>}

Classified(p) == p \in 1..Len(table_links) /\ (p < idx \/ (p = idx /\ AbortedAfterFetch))

Called(fn, p) == \E c \in 1..Len(calls) : calls[c] = [fn |-> fn, link |-> p]

(* C1: when the fetch of a report page fails, the session raises            *)
(* NetworkError carrying that page's URL, fetches and normalizes no further *)
(* link and never returns a result list, at whatever position the link is.  *)
C1_FetchFailureAborts ==
    \A k \in 2..Len(requests) :
        ~requests[k].ok =>
            /\ k = Len(requests)
            /\ Aborted
            /\ requests[k].url = page_url_of(table_links[k - 1])
            /\ raised = [type |-> "NetworkError", arg |-> page_url_of(table_links[k - 1])]
            /\ \A c \in 1..Len(calls) : calls[c].link < k - 1
            /\ exit_code # 0

C1_Witness ==
    /\ Len(requests) = 3
    /\ ~requests[3].ok
    /\ Len(results) = 1
    /\ pc = "exit_error"

MissingMandatory(page, seg) ==
    \/ get_field_value(page, "Location Name or Route") = None
    \/ seg = <<"avalanche">> /\ get_field_value(page, "Avalanche Date") = None

(* C2: a report whose normalization fails on a missing mandatory field is   *)
(* skipped and the session goes on: the session never stops on such a page. *)
C2_SkipsReportOnMissingMandatory ==
    (AbortedAfterFetch /\ HasSegment(table_links[idx])
        /\ FirstSegment(table_links[idx]) \in ReportSegments)
    => ~MissingMandatory(web_access, FirstSegment(table_links[idx]))

DispatchRule(errtype) ==
    \A p \in 1..Len(table_links) :
        (Classified(p) /\ HasSegment(table_links[p])) =>
            LET seg == FirstSegment(table_links[p])
            IN  /\ seg = <<"avalanche">> =>
                      /\ Called("_normalize_avalanche", p)
                      /\ ~Called("_normalize_observation", p)
                /\ seg = <<"observation">> =>
                      /\ Called("_normalize_observation", p)
                      /\ ~Called("_normalize_avalanche", p)
                /\ seg \notin ReportSegments =>
                      /\ p = idx
                      /\ raised = [type |-> errtype, arg |-> seg]
                      /\ ~Called("_normalize_observation", p)
                      /\ ~Called("_normalize_avalanche", p)

(* C3 as stated: every classified link with first segment avalanche went to *)
(* the avalanche normalizer, with observation to the observation            *)
(* normalizer, and any other segment raised InvalidDataError naming it.     *)
C3_Original == DispatchRule("InvalidDataError")

(* C3 amended: as C3, the exception for any other segment being the         *)
(* built-in ValueError whose message names the segment.                     *)
C3_DispatchBySegment == DispatchRule("ValueError")

C3_Witness ==
    /\ AbortedAfterFetch
    /\ idx = 2
    /\ HasSegment(table_links[1])
    /\ HasSegment(table_links[2])
    /\ FirstSegment(table_links[1]) = <<"avalanche">>
    /\ FirstSegment(table_links[2]) = <<"blog">>
    /\ raised.type = "ValueError"

(* C4: a session that returns has one pair per discovered link, the i-th    *)
(* pair built from the i-th link; no links, no pairs.                       *)
C4_ResultsFollowLinkOrder ==
    pc \in {"returned", "exit_ok"} =>
        /\ Len(results) = Len(table_links)
        /\ Len(calls) = Len(table_links)
        /\ \A i \in 1..Len(table_links) :
              /\ results[i][1].report_url = page_url_of(table_links[i])
              /\ results[i][1].report_id = <<Last(table_links[i])>>
              /\ results[i][2].report_id = <<Last(table_links[i])>>
              /\ calls[i].link = i

C4_Witness ==
    /\ pc = "returned"
    /\ Len(results) = 2
    /\ FirstSegment(table_links[1]) = <<"observation">>
    /\ FirstSegment(table_links[2]) = <<"avalanche">>

ContainerMissing ==
    /\ main_page # None
    /\ \/ Get(main_page).view_content = None
       \/ Get(Get(main_page).view_content).table = None

TableFound == main_page # None /\ ~ContainerMissing

DiscoveryRule(errtype) ==
    Len(requests) >= 1 =>
        /\ main_page = None =>
              Aborted /\ raised = [type |-> "NetworkError", arg |-> self_url]
        /\ ContainerMissing =>
              Aborted /\ raised = [type |-> errtype, arg |-> self_url]
        /\ TableFound =>
              /\ table_links = Get(Get(Get(main_page).view_content).table)
              /\ Len(requests) = 1 => (raised = NoExc /\ ~Aborted)
              /\ table_links = <<>> => (raised = NoExc /\ ~Aborted /\ results = <<>>)

(* C10 as stated: NetworkError only for a search page that cannot be        *)
(* fetched, ParsingError when the container or its table is missing, an     *)
(* empty list without error when the table has no anchors.                  *)
C10_Original == DiscoveryRule("ParsingError")

(* C10 amended: discovery fails with NetworkError carrying the search URL   *)
(* both when the page cannot be fetched and when the container or its table *)
(* is missing; a table without anchors gives an empty list and no error.    *)
C10_DiscoveryOutcomes == DiscoveryRule("NetworkError")

C10_Witness ==
    /\ main_page # None
    /\ Get(main_page).view_content # None
    /\ Get(Get(main_page).view_content).table = None
    /\ raised.type = "NetworkError"

CompassLabels == {Some(<<directions[k]>>) : k \in 1..8}

(* C12: the aspect of every BaseReportInfo of the result list is one of the *)
(* eight compass labels or absent, whether it comes from the page or from   *)
(* the secondary source; a page whose Aspect label reads 135 and that has   *)
(* no Snow Pilot URL gives the aspect SE.                                   *)
C12_AspectIsCompassLabel ==
    /\ \A i \in 1..Len(results) :
          results[i][1].aspect = None \/ results[i][1].aspect \in CompassLabels
    /\ (pc = "loop" /\ idx >= 2
            /\ get_field_value(web_access, "Aspect") = Some(<<"1", "3", "5">>)
            /\ get_field_value(web_access, "Snow Pilot URL") = None)
       => results[idx - 1][1].aspect = Some(<<"SE">>)

IsRequest(k) == http_log[k].kind = "request"

(* C17: requests are issued one at a time, and between any two requests of  *)
(* a session, secondary-source requests included, the session sleeps for    *)
(* the politeness delay.                                                    *)
C17_DelayBetweenRequests ==
    \A i, j \in 1..Len(http_log) :
        (i < j /\ IsRequest(i) /\ IsRequest(j)) =>
            \E m \in (i + 1)..(j - 1) : http_log[m] = Sleep

----------------------------------------------------------------------------
(* The secondary-source client on its own: one construction per behaviour *)

SnowUrls == {SNOW_URL, <<"https:", "/", "/", "snowpilot.org", "/", "node", "/", "8">>}

InitSnowPilot ==
    /\ pc = "client_start"
    /\ url \in SnowUrls
    /\ snow1 \in SnowWorlds
    /\ snow2 = [html |-> None, xml |-> NoXml]
    /\ table_links = <<>>
    /\ idx = 0
    /\ results = <<>>
    /\ raised = NoExc
    /\ requests = <<>>
    /\ web_access = EmptyPage
    /\ exit_code = -1
    /\ calls = <<>>
    /\ main_page = None
    /\ out = <<>>
    /\ aspect_degrees = None
    /\ http_log = <<>>
    /\ db = [reports |-> {}, observations |-> {}, avalanches |-> {}]
    /\ reports = <<>>
    /\ inserted = 0

(* snowpilot.py lines 24-37; out keeps the outcome of the constructor *)
NewSnowPilotClient ==
    /\ pc = "client_start"
    /\ out' = SnowPilotClient(url, snow1)
    /\ pc' = "client_done"
    /\ UNCHANGED <<table_links, idx, results, raised, requests, web_access,
                   exit_code, calls, main_page, url, snow1, snow2>>
    /\ UNCHANGED <<aspect_degrees, http_log, db, reports, inserted>>

NextSnowPilot == NewSnowPilotClient

SpecSnowPilot == InitSnowPilot /\ [][NextSnowPilot]_vars

(* the answers of the network, told apart without the client's code *)
PageHasXmlAnchor(snow) ==
    /\ snow.html # None
    /\ \E k \in 1..Len(Get(snow.html)) :
          /\ Get(snow.html)[k].href # None
          /\ Contains(Lower(Get(snow.html)[k].text), XML_WORD)

FetchOrParseFailure(snow) ==
    snow.html = None \/ snow.xml.kind \in {"request_error", "malformed"}

(* C9 as stated: load gives a Profile, NotAvailable (not an error) when the *)
(* page has no anchor whose text contains "xml", and SecondarySourceError   *)
(* carrying the URL on a fetch or parse failure; the caller can tell the    *)
(* last two apart.                                                          *)
C9_Original ==
    pc = "client_done" =>
        /\ FetchOrParseFailure(snow1) => out = Raise("SnowPilotError", url)
        /\ (snow1.html # None /\ ~PageHasXmlAnchor(snow1)) =>
              (out.ok /\ out # Raise("SnowPilotError", url))
        /\ (PageHasXmlAnchor(snow1) /\ snow1.xml.kind = "document") =>
              (out.ok /\ out.val._root = snow1.xml.root)

(* C9 amended: constructing the client gives a loaded profile, or raises    *)
(* SnowPilotError carrying the originating URL both when the page has no    *)
(* anchor with an href whose text contains "xml" and on a fetch or parse    *)
(* failure; the caller gets the same error in the two cases.                *)
C9_ProfileOrError ==
    pc = "client_done" =>
        /\ (FetchOrParseFailure(snow1) \/ ~PageHasXmlAnchor(snow1)) =>
              out = Raise("SnowPilotError", url)
        /\ (PageHasXmlAnchor(snow1) /\ snow1.xml.kind = "document") =>
              (out.ok /\ out.val._root = snow1.xml.root /\ out.val.url = url)

C9_Witness ==
    /\ pc = "client_done"
    /\ snow1.html # None
    /\ Get(snow1.html) # <<>>
    /\ ~PageHasXmlAnchor(snow1)
    /\ ~out.ok

----------------------------------------------------------------------------
(* Coordinate and snow-profile resolution on their own *)

(* a POINT literal the regular expression accepts and float() rejects *)
MalformedScript == Some([wkt |-> Some(<<LON_TEXT \o <<"-">>, LAT_TEXT>>)])

ResolvePages ==
    {MkPage(sc, GoodLocation, GoodRegion, asp, elv, slp, u, NoLabel, NoLabel, None, None) :
        sc \in Scripts \cup {MalformedScript}, asp \in AspectFields, elv \in ElevationFields,
        slp \in SlopeFields, u \in UrlFields}

(* the secondary-source answers with at most one anchor on the page *)
ResolveSnow == {w \in SnowWorlds : w.html = None \/ Len(Get(w.html)) <= 1}

InitResolve ==
    /\ pc = "resolve_start"
    /\ web_access \in ResolvePages
    /\ snow1 \in ResolveSnow
    /\ snow2 = [html |-> None, xml |-> NoXml]
    /\ url = <<>>
    /\ table_links = <<>>
    /\ idx = 0
    /\ results = <<>>
    /\ raised = NoExc
    /\ requests = <<>>
    /\ exit_code = -1
    /\ calls = <<>>
    /\ main_page = None
    /\ out = <<>>
    /\ aspect_degrees = None
    /\ http_log = <<>>
    /\ db = [reports |-> {}, observations |-> {}, avalanches |-> {}]
    /\ reports = <<>>
    /\ inserted = 0

(* utah_scraper.py lines 153-203 *)
ResolveProfile ==
    /\ pc = "resolve_start"
    /\ out' = get_snow_profile(web_access, snow1)
    /\ pc' = "profile_done"
    /\ UNCHANGED <<table_links, idx, results, raised, requests, web_access,
                   exit_code, calls, main_page, url, snow1, snow2>>
    /\ UNCHANGED <<aspect_degrees, http_log, db, reports, inserted>>

(* utah_scraper.py lines 91-135 *)
ResolveCoordinates ==
    /\ pc = "resolve_start"
    /\ out' = get_lat_lon(web_access, snow1)
    /\ pc' = "coords_done"
    /\ UNCHANGED <<table_links, idx, results, raised, requests, web_access,
                   exit_code, calls, main_page, url, snow1, snow2>>
    /\ UNCHANGED <<aspect_degrees, http_log, db, reports, inserted>>

NextResolve == ResolveProfile \/ ResolveCoordinates

SpecResolve == InitResolve /\ [][NextResolve]_vars

(* the three page values as get_snow_profile holds them at line 180 *)
Primary(page) ==
    <<get_field_value(page, "Aspect"), get_field_value(page, "Elevation"),
      page_slope_angle(page)>>

HasSnowUrl(page) == get_field_value(page, "Snow Pilot URL") # None

(* the three values the secondary source holds for this page: those of the  *)
(* loaded document, and absent when there is no document                    *)
Secondary(page, snow) ==
    IF HasSnowUrl(page) /\ PageHasXmlAnchor(snow) /\ snow.xml.kind = "document"
    THEN LET c == [url |-> Get(get_field_value(page, "Snow Pilot URL")),
                   _root |-> snow.xml.root]
         IN  <<snowpilot_aspect(c), snowpilot_elevation(c), snowpilot_slope_angle(c)>>
    ELSE <<None, None, None>>

(* C5: each of aspect, elevation and slope_angle of the merged profile is   *)
(* the page value when it is present, else the secondary value when it is   *)
(* present, else absent; a present page value is never overwritten.         *)
C5_MergeRule ==
    pc = "profile_done" =>
        \A f \in 1..3 :
            out.val[f] = IF Primary(web_access)[f] # None
                         THEN Primary(web_access)[f]
                         ELSE Secondary(web_access, snow1)[f]

SecondaryConsulted(page) ==
    HasSnowUrl(page) /\ \E f \in 1..3 : Primary(page)[f] = None

CoordinatesFromSecondary(page) ==
    page.script # None /\ Get(page.script).wkt = None /\ HasSnowUrl(page)

(* C6: when a field is absent on the page, a Snow Pilot URL exists and the  *)
(* load of the secondary source fails, the profile is absent in all three   *)
(* fields and nothing is raised; neither resolution lets a failure of the   *)
(* secondary source out.                                                    *)
C6_SecondaryFailureDegrades ==
    /\ (pc = "profile_done" /\ SecondaryConsulted(web_access)
            /\ FetchOrParseFailure(snow1))
       => out = Ok(<<None, None, None>>)
    /\ pc = "profile_done" => out.ok
    /\ (pc = "coords_done" /\ CoordinatesFromSecondary(web_access)
            /\ FetchOrParseFailure(snow1))
       => out = Ok(<<None, None>>)
    /\ (pc = "coords_done" /\ ~out.ok) => ~CoordinatesFromSecondary(web_access)

C6_Witness ==
    /\ pc = "profile_done"
    /\ Primary(web_access)[1] # None
    /\ Primary(web_access)[2] = None
    /\ HasSnowUrl(web_access)
    /\ snow1.html # None
    /\ snow1.xml.kind = "malformed"
    /\ out = Ok(<<None, None, None>>)

(* the POINT literal of the map script as two numbers, when it has both *)
PointLiteral(page) ==
    IF page.script = None \/ Get(page.script).wkt = None THEN None
    ELSE LET wkt == Get(Get(page.script).wkt)
         IN  IF Float(wkt[1]) = None \/ Float(wkt[2]) = None THEN None
             ELSE Some(<<Float(wkt[1]), Float(wkt[2])>>)

(* longitude and latitude as the document of the secondary source has them *)
SecondaryCoordinates(page, snow) ==
    IF HasSnowUrl(page) /\ PageHasXmlAnchor(snow) /\ snow.xml.kind = "document"
    THEN <<snow.xml.root.attrib.longitude, snow.xml.root.attrib.lat>>
    ELSE <<None, None>>

(* C13: coordinates are those of the map script's POINT literal whatever    *)
(* the secondary source holds; without a parseable literal they are those   *)
(* of the secondary source when a Snow Pilot URL exists; when neither has   *)
(* them, a page without map script included, both are absent and nothing    *)
(* is raised.                                                               *)
C13_CoordinateResolution ==
    pc = "coords_done" =>
        IF PointLiteral(web_access) # None
        THEN out = Ok(Get(PointLiteral(web_access)))
        ELSE out = Ok(SecondaryCoordinates(web_access, snow1))

----------------------------------------------------------------------------
(* The normalizer on its own: one report page, one normalization *)

ObservationExtras ==
    {<<NoLabel, None, None>>,
     <<Field(Some(<<"Skier">>)), Some(<<>>), Some(<<[key |-> <<"Problem">>, value |-> None]>>)>>,
     <<Field(Some(<<"Skier">>)),
       Some(<<[class |-> {"text_02", "mb2"}, text |-> <<"Cracking">>],
              [class |-> {"field-label"}, text |-> <<"Comments">>],
              [class |-> {"text_02", "mb2"}, text |-> <<"none">>]>>),
       Some(<<[key |-> <<"Problem">>, value |-> Some(<<"Wind Drifted Snow">>)],
              [key |-> <<"Trend">>, value |-> Some(<<"Same">>)]>>)>>}

NormalizePages ==
    {MkPage(sc, loc, rg, asp, Field(Some(<<"9", "5", "0", "0">>)),
            Field(Some(<<"3", "8", "deg">>)), u, ad, x[1], x[2], x[3]) :
        sc \in Scripts, loc \in LocationFields, rg \in RegionFields,
        asp \in {NoLabel, Field(Some(<<"1", "3", "5">>))}, u \in UrlFields,
        ad \in DateFields, x \in ObservationExtras}

NormalizeSnow ==
    {w \in ResolveSnow :
        \/ w.html = None
        \/ /\ w.xml.kind = "document"
           /\ w.xml.root.other_children /\ w.xml.root.location = None
           /\ w.xml.root.attrib.aspect = Some(<<"1", "3", "5">>)
           /\ w.xml.root.attrib.incline = None
           /\ w.xml.root.attrib.lat # None /\ w.xml.root.attrib.longitude # None}

ReportUrls ==
    {page_url_of(<<"/", "avalanche", "/", "12345">>),
     page_url_of(<<"/", "observation", "/", "67890">>)}

InitNormalize ==
    /\ pc = "normalize_start"
    /\ web_access \in NormalizePages
    /\ url \in ReportUrls
    /\ snow1 \in NormalizeSnow
    /\ snow2 \in NormalizeSnow
    /\ table_links = <<>>
    /\ idx = 0
    /\ results = <<>>
    /\ raised = NoExc
    /\ requests = <<>>
    /\ exit_code = -1
    /\ calls = <<>>
    /\ main_page = None
    /\ out = <<>>
    /\ aspect_degrees = None
    /\ http_log = <<>>
    /\ db = [reports |-> {}, observations |-> {}, avalanches |-> {}]
    /\ reports = <<>>
    /\ inserted = 0

IsAvalancheUrl(u) == Contains(u, <<"/", "avalanche", "/">>)

(* utah_scraper.py lines 296-329 *)
NormalizeAvalanche ==
    /\ pc = "normalize_start"
    /\ IsAvalancheUrl(url)
    /\ out' = _normalize_avalanche(url, web_access, snow1, snow2)
    /\ pc' = "avalanche_done"
    /\ UNCHANGED <<table_links, idx, results, raised, requests, web_access,
                   exit_code, calls, main_page, url, snow1, snow2>>
    /\ UNCHANGED <<aspect_degrees, http_log, db, reports, inserted>>

(* utah_scraper.py lines 331-367 *)
NormalizeObservation ==
    /\ pc = "normalize_start"
    /\ ~IsAvalancheUrl(url)
    /\ out' = _normalize_observation(url, web_access, snow1, snow2)
    /\ pc' = "observation_done"
    /\ UNCHANGED <<table_links, idx, results, raised, requests, web_access,
                   exit_code, calls, main_page, url, snow1, snow2>>
    /\ UNCHANGED <<aspect_degrees, http_log, db, reports, inserted>>

NextNormalize == NormalizeAvalanche \/ NormalizeObservation

SpecNormalize == InitNormalize /\ [][NextNormalize]_vars

Normalized == pc \in {"avalanche_done", "observation_done"}

LocationMissing(page) == ~page.fields["Location Name or Route"].label

DateMissingOrMalformed(page) ==
    \/ ~page.fields["Avalanche Date"].label
    \/ /\ get_field_value(page, "Avalanche Date") # None
       /\ get_field_value(page, "Avalanche Date") # Some(GOOD_DATE)

(* The pages looked at have their map script and their Region label, so    *)
(* that the mandatory field is the only element the normalizer can miss.    *)
OtherwiseComplete(page) ==
    page.script # None /\ get_field_value(page, "Region") # None

(* C7: normalizing a page without the "Location Name or Route" label raises *)
(* DataExtractionError naming the location-name field; normalizing an       *)
(* avalanche page whose "Avalanche Date" label is missing or whose date     *)
(* text is not in the long form raises DataExtractionError with field       *)
(* avalanche_date.                                                          *)
C7_MandatoryFieldErrors ==
    /\ (Normalized /\ OtherwiseComplete(web_access) /\ LocationMissing(web_access))
       => out = Raise("DataExtractionError", <<"location_name">>)
    /\ (pc = "avalanche_done" /\ OtherwiseComplete(web_access)
            /\ get_field_value(web_access, "Location Name or Route") # None
            /\ DateMissingOrMalformed(web_access))
       => out = Raise("DataExtractionError", <<"avalanche_date">>)

HasMandatory(page, p) ==
    /\ get_field_value(page, "Location Name or Route") # None
    /\ p = "avalanche_done" => get_field_value(page, "Avalanche Date") = Some(GOOD_DATE)

(* C8: normalizing a page that has its mandatory fields never raises,       *)
(* whichever of the other page elements are absent, and every absent        *)
(* element is absent in the emitted records.                                *)
C8_OptionalAbsenceNeverRaises ==
    (Normalized /\ HasMandatory(web_access, pc)) =>
        /\ out.ok
        /\ web_access.script = None =>
              (out.val[1].latitude = None /\ out.val[1].longitude = None)
        /\ get_field_value(web_access, "Region") = None => out.val[1].region_id = None
        /\ (pc = "avalanche_done" /\ get_field_value(web_access, "Trigger") = None)
              => out.val[2].trigger = None
        /\ (pc = "observation_done" /\ web_access.red_flags = None)
              => out.val[2].red_flags = None

(* the fields of an AvalancheDetail record in the data model *)
AvalancheDetailFields ==
    {"avalanche_date", "trigger", "trigger_additional", "avalanche_type", "problem",
     "weak_layer", "depth", "width_feet", "vertical_feet", "caught", "carried",
     "report_id"}

(* C18: the detail record of every avalanche pair the normalizer emits has  *)
(* exactly the field names of the data model, which are the names the       *)
(* avalanche insert of the sink reads.                                      *)
C18_AvalancheDetailFieldNames ==
    (pc = "avalanche_done" /\ out.ok) => DOMAIN out.val[2] = AvalancheDetailFields

----------------------------------------------------------------------------
(* The bearing conversion on its own: one text, one conversion *)

MaxBearing == 3

BearingChars == {"0", "2", "3", "4", "5", "6", "9", ".", " "}

(* bearings as they are written in reports, longer than the bounded texts *)
WrittenBearings ==
    {<<"1", "3", "5", ".", "5", " ", "d", "e", "g", ".">>,
     <<"2", "2", ".", "5">>,
     <<"1", "0", " ", "t", "o", " ", "2", "0">>,
     <<"N", "E">>}

BearingTexts ==
    UNION {[1..n -> BearingChars] : n \in 0..MaxBearing} \cup WrittenBearings

InitCompass ==
    /\ pc = "compass_start"
    /\ aspect_degrees \in {None} \cup {Some(t) : t \in BearingTexts}
    /\ out = <<>>
    /\ url = <<>>
    /\ snow1 = [html |-> None, xml |-> NoXml]
    /\ snow2 = [html |-> None, xml |-> NoXml]
    /\ web_access = EmptyPage
    /\ table_links = <<>>
    /\ idx = 0
    /\ results = <<>>
    /\ raised = NoExc
    /\ requests = <<>>
    /\ exit_code = -1
    /\ calls = <<>>
    /\ main_page = None
    /\ http_log = <<>>
    /\ db = [reports |-> {}, observations |-> {}, avalanches |-> {}]
    /\ reports = <<>>
    /\ inserted = 0

(* snowpilot.py lines 67-85 *)
DegreesToCompass ==
    /\ pc = "compass_start"
    /\ out' = _degrees_to_compass(aspect_degrees)
    /\ pc' = "compass_done"
    /\ UNCHANGED <<table_links, idx, results, raised, requests, web_access,
                   exit_code, calls, main_page, url, snow1, snow2,
                   aspect_degrees, http_log, db, reports, inserted>>

NextCompass == DegreesToCompass

SpecCompass == InitCompass /\ [][NextCompass]_vars

(* the numeric tokens of a bearing text: its maximal runs of digits and dots *)
NumericTokens(text) == FindAllNumeric(text)

IsNumber(token) == Float(token) # None

(* C11: a bearing text whose first numeric token is the number d gives the  *)
(* label at index round(d / 45) mod 8 of N, NE, E, SE, S, SW, W, NW; an     *)
(* absent input and a text without numeric token give absent.               *)
C11_CompassIndex ==
    pc = "compass_done" =>
        IF aspect_degrees = None THEN out = None
        ELSE LET tokens == NumericTokens(Get(aspect_degrees))
             IN  IF tokens = <<>> THEN out = None
                 ELSE IsNumber(tokens[1]) =>
                        LET d == Get(Float(tokens[1]))
                        IN  out = Some(<<directions[(Round(d.num, 45 * d.den) % 8) + 1]>>)

(* C20: a text holding two or more numeric tokens gives what its first      *)
(* numeric token alone gives.                                               *)
C20_FirstTokenOnly ==
    (pc = "compass_done" /\ aspect_degrees # None) =>
        LET tokens == NumericTokens(Get(aspect_degrees))
        IN  Len(tokens) >= 2 => out = _degrees_to_compass(Some(tokens[1]))

----------------------------------------------------------------------------
(* The base record on its own: one report page, one call of _get_base_info *)

MaxRegionLen == 3

RegionNames ==
    <<"Logan", "Ogden", "Uintas", "Salt Lake", "Provo", "Skyline", "Moab",
      "Abajos", "Southwest">>

RegionTokens == {RegionNames[k] : k \in 1..9} \cup {"Narnia", " ", REGION_SEP}

(* get_text(strip=True) leaves no blank at either end of a value *)
RegionValues ==
    {v \in UNION {[1..n -> RegionTokens] : n \in 0..MaxRegionLen} : Strip(v) = v}
    \cup {<<"Salt Lake", " ", REGION_SEP, " ", "Days Fork">>,
          <<"Salt Lake", " ", REGION_SEP, " ", "Park City", " ", REGION_SEP, " ", "Days Fork">>}

BaseInfoPages ==
    {[GoodPage EXCEPT !.fields["Region"] = Field(Some(v))] : v \in RegionValues}
    \cup {[GoodPage EXCEPT !.fields["Region"] = NoLabel]}

InitBaseInfo ==
    /\ pc = "base_start"
    /\ web_access \in BaseInfoPages
    /\ url \in ReportUrls
    /\ snow1 = [html |-> None, xml |-> NoXml]
    /\ snow2 = [html |-> None, xml |-> NoXml]
    /\ out = <<>>
    /\ table_links = <<>>
    /\ idx = 0
    /\ results = <<>>
    /\ raised = NoExc
    /\ requests = <<>>
    /\ exit_code = -1
    /\ calls = <<>>
    /\ main_page = None
    /\ aspect_degrees = None
    /\ http_log = <<>>
    /\ db = [reports |-> {}, observations |-> {}, avalanches |-> {}]
    /\ reports = <<>>
    /\ inserted = 0

(* utah_scraper.py lines 260-294 *)
GetBaseInfo ==
    /\ pc = "base_start"
    /\ out' = _get_base_info(url, web_access, snow1, snow2)
    /\ pc' = "base_done"
    /\ UNCHANGED <<table_links, idx, results, raised, requests, web_access,
                   exit_code, calls, main_page, url, snow1, snow2,
                   aspect_degrees, http_log, db, reports, inserted>>

NextBaseInfo == GetBaseInfo

SpecBaseInfo == InitBaseInfo /\ [][NextBaseInfo]_vars

SeparatorsOf(v) == {k \in 1..Len(v) : v[k] = REGION_SEP}

FirstSeparator(v) == CHOOSE k \in SeparatorsOf(v) : \A m \in SeparatorsOf(v) : k <= m

LastSeparator(v) == CHOOSE k \in SeparatorsOf(v) : \A m \in SeparatorsOf(v) : m <= k

(* C14: the parent region is the trimmed text before the first separator of *)
(* the Region value and the sub-region the trimmed text after its last      *)
(* separator (both the whole value when it has none); region_id is the      *)
(* parent's place in the table of 9 regions, absent for a name that is not  *)
(* in it, region_name keeping the name; the base record is still emitted.   *)
C14_RegionResolution ==
    (pc = "base_done" /\ get_field_value(web_access, "Region") # None) =>
        LET v      == Get(get_field_value(web_access, "Region"))
            parent == IF SeparatorsOf(v) = {} THEN v
                      ELSE Strip(SubSeq(v, 1, FirstSeparator(v) - 1))
            sub    == IF SeparatorsOf(v) = {} THEN v
                      ELSE Strip(SubSeq(v, LastSeparator(v) + 1, Len(v)))
        IN  /\ out.ok
            /\ out.val.region_name = parent
            /\ out.val["sub-region_name"] = sub
            /\ out.val.region_id =
                  IF \E k \in 1..9 : parent = <<RegionNames[k]>>
                  THEN Some(CHOOSE k \in 1..9 : parent = <<RegionNames[k]>>)
                  ELSE None

C14_Witness ==
    /\ pc = "base_done"
    /\ get_field_value(web_access, "Region") = Some(<<"Narnia", REGION_SEP, "Salt Lake">>)
    /\ out.ok
    /\ out.val.region_id = None
    /\ out.val.region_name = <<"Narnia">>
    /\ out.val["sub-region_name"] = <<"Salt Lake">>

----------------------------------------------------------------------------
(* The slope angle of the base record: one report page whose Slope Angle    *)
(* value, Aspect label and Snow Pilot URL vary, one call of _get_base_info  *)

MaxSlopeLen == 3

SlopeChars == {"3", "8", ".", "deg", " ", "A"}

(* get_text(strip=True) leaves no blank at either end of a value; the word  *)
(* unknown is written in four letter cases, once followed by a digit        *)
SlopeTexts ==
    {v \in UNION {[1..n -> SlopeChars] : n \in 0..MaxSlopeLen} : Strip(v) = v}
    \cup {UNKNOWN,
          <<"U", "n", "k", "n", "o", "w", "n">>,
          <<"U", "N", "K", "N", "O", "W", "N">>,
          <<"u", "n", "K", "n", "o", "w", "N">>,
          <<"U", "n", "k", "n", "o", "w", "n", "3">>}

SlopePages ==
    {[GoodPage EXCEPT !.fields["Slope Angle"] = slp,
                      !.fields["Aspect"] = asp,
                      !.fields["Snow Pilot URL"] = u] :
        slp \in {NoLabel} \cup {Field(Some(v)) : v \in SlopeTexts},
        asp \in {NoLabel, Field(Some(<<"1", "3", "5">>))},
        u \in UrlFields}

Inclines == {None, Some(<<>>), Some(<<"3", "8">>), Some(<<"s", "t", "e", "e", "p">>)}

(* the secondary source: no page, or a page whose XML link gives a document *)
(* with one of the incline attributes                                       *)
SlopeSnow ==
    {[html |-> None, xml |-> NoXml]}
    \cup {[html |-> Some(<<[text |-> <<"X", "M", "L">>, href |-> Some(<<"profile.xml">>)]>>),
           xml |-> [kind |-> "document",
                    root |-> [EmptyRoot EXCEPT !.attrib.incline = i,
                                               !.other_children = TRUE]]] :
            i \in Inclines}

InitSlope ==
    /\ pc = "base_start"
    /\ web_access \in SlopePages
    /\ url = <<"https:", "/", "/", "utahavalanchecenter.org", "/", "observation", "/", "12345">>
    /\ snow1 = [html |-> None, xml |-> NoXml]
    /\ snow2 \in SlopeSnow
    /\ out = <<>>
    /\ table_links = <<>>
    /\ idx = 0
    /\ results = <<>>
    /\ raised = NoExc
    /\ requests = <<>>
    /\ exit_code = -1
    /\ calls = <<>>
    /\ main_page = None
    /\ aspect_degrees = None
    /\ http_log = <<>>
    /\ db = [reports |-> {}, observations |-> {}, avalanches |-> {}]
    /\ reports = <<>>
    /\ inserted = 0

SpecSlope == InitSlope /\ [][NextBaseInfo]_vars

NumericOnly(text) == SelectSeq(text, IsNumericChar)

(* C21: a page Slope Angle that is the word unknown in any letter case is   *)
(* treated as absent and any other page value is reduced to its numeric     *)
(* characters; the slope_angle of every emitted base record is absent or a  *)
(* non-empty string of numeric characters.                                  *)
C21_SlopeAngleNumeric ==
    /\ LET v == get_field_value(web_access, "Slope Angle")
       IN  v # None =>
             page_slope_angle(web_access) =
                 IF Lower(Get(v)) = UNKNOWN THEN None ELSE Some(NumericOnly(Get(v)))
    /\ (pc = "base_done" /\ out.ok) =>
          \/ out.val.slope_angle = None
          \/ /\ Get(out.val.slope_angle) # <<>>
             /\ NumericOnly(Get(out.val.slope_angle)) = Get(out.val.slope_angle)

----------------------------------------------------------------------------
(* Red-flag extraction on its own: one page, one call of get_red_flags *)

MaxSiblings == 3

SiblingClasses ==
    {{"text_02", "mb2"}, {"text_02"}, {"field-label"}, {"field-label", "text_02"}, {}}

Siblings == [class : SiblingClasses, text : {<<"Cracking">>, <<"Collapsing">>}]

SiblingLists == UNION {[1..n -> Siblings] : n \in 0..MaxSiblings}

RedFlagPages ==
    {[GoodPage EXCEPT !.red_flags = rf] : rf \in {None} \cup {Some(l) : l \in SiblingLists}}

InitRedFlags ==
    /\ pc = "flags_start"
    /\ web_access \in RedFlagPages
    /\ url = <<>>
    /\ snow1 = [html |-> None, xml |-> NoXml]
    /\ snow2 = [html |-> None, xml |-> NoXml]
    /\ out = <<>>
    /\ table_links = <<>>
    /\ idx = 0
    /\ results = <<>>
    /\ raised = NoExc
    /\ requests = <<>>
    /\ exit_code = -1
    /\ calls = <<>>
    /\ main_page = None
    /\ aspect_degrees = None
    /\ http_log = <<>>
    /\ db = [reports |-> {}, observations |-> {}, avalanches |-> {}]
    /\ reports = <<>>
    /\ inserted = 0

(* utah_scraper.py lines 233-258 *)
GetRedFlags ==
    /\ pc = "flags_start"
    /\ out' = get_red_flags(web_access)
    /\ pc' = "flags_done"
    /\ UNCHANGED <<table_links, idx, results, raised, requests, web_access,
                   exit_code, calls, main_page, url, snow1, snow2,
                   aspect_degrees, http_log, db, reports, inserted>>

NextRedFlags == GetRedFlags

SpecRedFlags == InitRedFlags /\ [][NextRedFlags]_vars

IsLabelSibling(sib) == "field-label" \in sib.class

IsValueSibling(sib) == "text_02" \in sib.class

(* C15: without the Red Flags label the result is absent; with it the       *)
(* result is the list, in document order, of the texts of the value         *)
(* siblings that come before the first label sibling, an empty list when    *)
(* there are none.                                                          *)
C15_RedFlags ==
    pc = "flags_done" =>
        IF web_access.red_flags = None THEN out = None
        ELSE LET sibs   == Get(web_access.red_flags)
                 labels == {k \in 1..Len(sibs) : IsLabelSibling(sibs[k])}
                 stop   == IF labels = {} THEN Len(sibs) + 1
                           ELSE CHOOSE k \in labels : \A m \in labels : k <= m
                 values == SelectSeq(SubSeq(sibs, 1, stop - 1), IsValueSibling)
             IN  /\ out # None
                 /\ Get(out) = [k \in 1..Len(values) |-> values[k].text]

C15_Witness ==
    /\ pc = "flags_done"
    /\ web_access.red_flags # None
    /\ Len(Get(web_access.red_flags)) = 3
    /\ IsValueSibling(Get(web_access.red_flags)[1])
    /\ IsLabelSibling(Get(web_access.red_flags)[2])
    /\ IsValueSibling(Get(web_access.red_flags)[3])
    /\ ~IsLabelSibling(Get(web_access.red_flags)[3])
    /\ out = Some(<<Get(web_access.red_flags)[1].text>>)

----------------------------------------------------------------------------
(* DatabaseManager (src/database/db_manager.py).  db holds the rows of the  *)
(* three tables; report_id is the conflict target of every INSERT, so a     *)
(* table holds at most one row per report_id.  A fault is where the         *)
(* database refuses: at connect, at the base statement or at the detail     *)
(* statement.                                                               *)

EmptyDb == [reports |-> {}, observations |-> {}, avalanches |-> {}]

Faults == {"none", "connect", "base", "detail"}

(* the parameters the three statements name *)
BaseParameters ==
    {"report_id", "report_url", "report_type", "observation_date", "location_name",
     "region_id", "sub_region_name", "longitude", "latitude", "elevation_ft",
     "aspect", "slope_angle"}

ObservationParameters ==
    {"report_id", "red_flags", "new_snow_depth", "new_snow_density",
     "snow_surface_conditions", "avy_problem_1", "avy_problem_1_trend",
     "avy_problem_2", "avy_problem_2_trend", "today_rating", "tomorrow_rating"}

AvalancheParameters ==
    {"report_id", "avalanche_date", "trigger", "trigger_additional", "avalanche_type",
     "problem", "weak_layer", "depth", "width_feet", "vertical_feet", "caught",
     "carried"}

(* cur.execute of an INSERT ... ON CONFLICT (report_id) DO NOTHING: a       *)
(* parameter the mapping lacks raises KeyError before anything is sent      *)
execute_insert(table, parameters, mapping) ==
    IF ~(parameters \subseteq DOMAIN mapping)
    THEN Raise("KeyError", CHOOSE k \in parameters : k \notin DOMAIN mapping)
    ELSE IF \E row \in table : row.report_id = mapping["report_id"]
    THEN Ok(table)
    ELSE Ok(table \cup {[k \in parameters |-> mapping[k]]})

(* variant: every statement is committed on its own, so that a call whose   *)
(* detail statement raises keeps the base row it has added                  *)
insert_report_autocommit(database, base_info, specific_data, report_type, fault) ==
    LET failed(exc) == [db |-> database, exc |-> exc]
        mapping == ("report_type" :> report_type)
                   @@ ("sub_region_name" :>
                          IF "sub-region_name" \in DOMAIN base_info
                          THEN base_info["sub-region_name"] ELSE None)
                   @@ base_info
        base    == execute_insert(database.reports, BaseParameters, mapping)
        detail  == IF report_type = "observation"
                   THEN execute_insert(database.observations, ObservationParameters,
                                       specific_data)
                   ELSE execute_insert(database.avalanches, AvalancheParameters,
                                       specific_data)
        kept(exc) == [db |-> [database EXCEPT !.reports = base.val], exc |-> exc]
    IN  IF "report_id" \notin DOMAIN base_info
        THEN failed([type |-> "KeyError", arg |-> "report_id"])
        ELSE IF fault = "connect"
        THEN failed([type |-> "OperationalError", arg |-> "connect"])
        ELSE IF ~base.ok THEN failed(base.exc)
        ELSE IF fault = "base" THEN failed([type |-> "DatabaseError", arg |-> "reports"])
        ELSE IF report_type \notin {"observation", "avalanche"}
        THEN kept(NoExc)
        ELSE IF ~detail.ok THEN kept(detail.exc)
        ELSE IF fault = "detail" THEN kept([type |-> "DatabaseError", arg |-> report_type])
        ELSE [db |-> IF report_type = "observation"
                     THEN [database EXCEPT !.reports = base.val,
                                           !.observations = detail.val]
                     ELSE [database EXCEPT !.reports = base.val,
                                           !.avalanches = detail.val],
              exc |-> NoExc]

(* lines 68-141 inside get_connection (lines 42-66): the two statements run *)
(* in one transaction tx that is committed when the block ends and rolled   *)
(* back when it raises.  The result is the database and the exception.      *)
insert_report(database, base_info, specific_data, report_type, fault) ==
    LET failed(exc) == [db |-> database, exc |-> exc]
        mapping == ("report_type" :> report_type)
                   @@ ("sub_region_name" :>
                          IF "sub-region_name" \in DOMAIN base_info
                          THEN base_info["sub-region_name"] ELSE None)
                   @@ base_info
        base    == execute_insert(database.reports, BaseParameters, mapping)
        detail  == IF report_type = "observation"
                   THEN execute_insert(database.observations, ObservationParameters,
                                       specific_data)
                   ELSE execute_insert(database.avalanches, AvalancheParameters,
                                       specific_data)
    IN  IF "report_id" \notin DOMAIN base_info
        THEN failed([type |-> "KeyError", arg |-> "report_id"])
        ELSE IF fault = "connect"
        THEN failed([type |-> "OperationalError", arg |-> "connect"])
        ELSE IF ~base.ok THEN failed(base.exc)
        ELSE IF fault = "base" THEN failed([type |-> "DatabaseError", arg |-> "reports"])
        ELSE IF report_type \notin {"observation", "avalanche"}
        THEN [db |-> [database EXCEPT !.reports = base.val], exc |-> NoExc]
        ELSE IF ~detail.ok THEN failed(detail.exc)
        ELSE IF fault = "detail" THEN failed([type |-> "DatabaseError", arg |-> report_type])
        ELSE [db |-> IF report_type = "observation"
                     THEN [database EXCEPT !.reports = base.val,
                                           !.observations = detail.val]
                     ELSE [database EXCEPT !.reports = base.val,
                                           !.avalanches = detail.val],
              exc |-> NoExc]

(* lines 156-160 *)
report_type_of(base_info) ==
    IF Contains(base_info.report_url, <<"/", "avalanche", "/">>)
    THEN "avalanche" ELSE "observation"

----------------------------------------------------------------------------
(* The sink: calls of insert_report and one call of insert_reports_batch *)

MaxCalls == 2

MaxBatch == 2

Unreachable == [html |-> None, xml |-> NoXml]

RevisedPage ==
    [GoodPage EXCEPT !.fields["Location Name or Route"] = Field(Some(<<"Cardiff Fork">>))]

(* the pairs the normalizer emits for a report page *)
observation_pair(id, page) ==
    _normalize_observation(page_url_of(<<"/", "observation", "/", id>>), page,
                           Unreachable, Unreachable).val

avalanche_pair(id, page) ==
    _normalize_avalanche(page_url_of(<<"/", "avalanche", "/", id>>), page,
                         Unreachable, Unreachable).val

(* an avalanche pair whose detail has the field names of the data model *)
data_model_avalanche_pair(id, page) ==
    <<avalanche_pair(id, page)[1],
      [report_id |-> <<id>>,
       avalanche_date |-> <<"2", "0", "2", "5", "-", "0", "1", "-", "1", "5">>,
       trigger |-> Some(<<"Skier">>),
       trigger_additional |-> None,
       avalanche_type |-> Some(<<"Soft Slab">>),
       problem |-> None,
       weak_layer |-> None,
       depth |-> None,
       width_feet |-> None,
       vertical_feet |-> None,
       caught |-> Some(<<"1">>),
       carried |-> Some(<<"1">>)]>>

SinkPairs ==
    {observation_pair("12345", GoodPage), observation_pair("12345", RevisedPage),
     avalanche_pair("12345", GoodPage), data_model_avalanche_pair("12345", GoodPage),
     observation_pair("67890", GoodPage), data_model_avalanche_pair("67890", GoodPage)}

Batches == UNION {[1..n -> SinkPairs] : n \in 0..MaxBatch}

InitSink ==
    /\ pc = "sink_idle"
    /\ db = EmptyDb
    /\ reports = <<>>
    /\ inserted = 0
    /\ idx = 0
    /\ out = <<>>
    /\ url = <<>>
    /\ snow1 = Unreachable
    /\ snow2 = Unreachable
    /\ web_access = EmptyPage
    /\ table_links = <<>>
    /\ results = <<>>
    /\ raised = NoExc
    /\ requests = <<>>
    /\ exit_code = -1
    /\ calls = <<>>
    /\ main_page = None
    /\ aspect_degrees = None
    /\ http_log = <<>>

(* what a call of insert_report was given and how it ended *)
CallRecord(base_info, report_type, fault, exc) ==
    [report_id |-> base_info.report_id, report_type |-> report_type,
     fault |-> fault, exc |-> exc]

(* db_manager.py lines 68-141, called by a client of the sink; idx counts   *)
(* the calls made so far                                                    *)
InsertReport ==
    /\ pc = "sink_idle"
    /\ idx < MaxCalls
    /\ \E pair \in SinkPairs, report_type \in {"observation", "avalanche"},
          fault \in Faults :
          LET r == insert_report(db, pair[1], pair[2], report_type, fault)
          IN  /\ db' = r.db
              /\ out' = CallRecord(pair[1], report_type, fault, r.exc)
    /\ idx' = idx + 1
    /\ UNCHANGED <<pc, reports, inserted, table_links, results, raised, requests,
                   web_access, exit_code, calls, main_page, url, snow1, snow2,
                   aspect_degrees, http_log>>

(* lines 152-153: the batch is received and the count starts at zero *)
BatchStart ==
    /\ pc = "sink_idle"
    /\ reports' \in Batches
    /\ inserted' = 0
    /\ idx' = 1
    /\ pc' = "batch_loop"
    /\ UNCHANGED <<db, out, table_links, results, raised, requests, web_access,
                   exit_code, calls, main_page, url, snow1, snow2,
                   aspect_degrees, http_log>>

(* lines 154-167: one pass of the loop, for the report at position idx *)
BatchStep ==
    /\ pc = "batch_loop"
    /\ idx <= Len(reports)
    /\ \E fault \in Faults :
          LET base_info     == reports[idx][1]
              specific_data == reports[idx][2]
              report_type   == report_type_of(base_info)
              r == insert_report(db, base_info, specific_data, report_type, fault)
          IN  /\ db' = r.db
              /\ out' = CallRecord(base_info, report_type, fault, r.exc)
              /\ inserted' = IF r.exc = NoExc THEN inserted + 1 ELSE inserted
    /\ idx' = idx + 1
    /\ UNCHANGED <<pc, reports, table_links, results, raised, requests, web_access,
                   exit_code, calls, main_page, url, snow1, snow2,
                   aspect_degrees, http_log>>

(* lines 169-170: the count is returned *)
BatchReturn ==
    /\ pc = "batch_loop"
    /\ idx > Len(reports)
    /\ pc' = "batch_done"
    /\ UNCHANGED <<db, reports, inserted, idx, out, table_links, results, raised,
                   requests, web_access, exit_code, calls, main_page, url, snow1,
                   snow2, aspect_degrees, http_log>>

NextSink == InsertReport \/ BatchStart \/ BatchStep \/ BatchReturn

SpecSink == InitSink /\ [][NextSink]_vars

(* a step that is one call of insert_report, alone or inside the batch *)
InsertReportCalled == pc' = pc /\ idx' = idx + 1

Stored(database, id) == \E row \in database.reports : row.report_id = id

(* C16: once a report is stored, a call of insert_report for the same       *)
(* report_id that the database does not refuse raises nothing and leaves    *)
(* the three tables as they were, whatever pair it is given.                *)
C16_SinkIdempotent ==
    [][(InsertReportCalled /\ Stored(db, out'.report_id) /\ out'.fault = "none")
        => (out'.exc = NoExc /\ db' = db)]_vars

(* C19: each pass of the batch loop calls insert_report for the report at   *)
(* its position, whatever happened to the reports before it, and the count  *)
(* grows by one exactly when a report row is added to the store, so that    *)
(* a failed or skipped report is not counted.                               *)
C19_BatchCountsInserted ==
    [][(pc = "batch_loop" /\ InsertReportCalled)
        => /\ out'.report_id = reports[idx][1].report_id
           /\ inserted' - inserted
                 = Cardinality(db'.reports) - Cardinality(db.reports)]_vars

(* every detail row has a base row with its report_id *)
ReferentialIntegrity(database) ==
    \A row \in database.observations \cup database.avalanches :
        Stored(database, row.report_id)

(* C22: after any sequence of insert_report calls every row of observations *)
(* or avalanches has a row of reports with the same report_id, and a call   *)
(* that raises, at the base statement or at the detail statement, leaves    *)
(* the three tables exactly as they were before it.                         *)
C22_InsertAtomic ==
    /\ []ReferentialIntegrity(db)
    /\ [][(InsertReportCalled /\ out'.exc # NoExc) => db' = db]_vars

(* a second call whose detail statement is refused after its base statement *)
(* had a new row to add: the row is not stored, the first report is         *)
C22_Witness ==
    /\ pc = "sink_idle"
    /\ idx = 2
    /\ out.fault = "detail"
    /\ out.exc # NoExc
    /\ ~Stored(db, out.report_id)
    /\ db.reports # {}
    /\ db.observations \cup db.avalanches # {}

====
